---- MODULE Spec2Model ----
(***************************************************************************)
(* Model of lucaregnskap.py: a one-shot scraper that fetches the account   *)
(* pages QUERIES concurrently (scrape / scrape_queries / scrape_async),    *)
(* parses every page (parse_konto), writes the catalog to ACCOUNTS_FILE    *)
(* and serves it from that file afterwards (get_accounts).                 *)
(*                                                                         *)
(* Text is a sequence of one-character strings.  A page is the part of the *)
(* BeautifulSoup tree that parse_konto looks at: the texts of its h1       *)
(* elements in document order and the children of the first                *)
(* div.account-description (hasDiv = FALSE when find() returns None).      *)
(* A child is a text node or an <a> element with its visible text and its  *)
(* title attribute (hasTitle = FALSE when attrs.get('title') is None).     *)
(***************************************************************************)
EXTENDS Integers, Sequences, FiniteSets, TLC

VARIABLES artifact, pc, mode, tasks, outcome, err, ret,
          writes, scrapes, issued, startState, lastSeen, consec,
          pPc, pHtml, pKonto

vars == <<artifact, pc, mode, tasks, outcome, err, ret,
          writes, scrapes, issued, startState, lastSeen, consec,
          pPc, pHtml, pKonto>>

storeVars == <<artifact, pc, mode, tasks, outcome, err, ret,
               writes, scrapes, issued, startState, lastSeen, consec>>

parseVars == <<pPc, pHtml, pKonto>>

(***************************************************************************)
(* Bounds                                                                  *)
(***************************************************************************)
\* number of locators in QUERIES (the program has END - START + 1 = 7991)
NumQueries == 3
\* longest description block (number of child nodes) drawn for parse_konto
MaxNodes == 3

(***************************************************************************)
(* Text helpers (Python str operations)                                    *)
(***************************************************************************)
\* characters removed by str.strip()
Whitespace == {" ", "\n", "\t"}

\* the literal 'Konto: ' of parse_konto
KontoPrefix == <<"K", "o", "n", "t", "o", ":", " ">>

StartsWith(s, p) == Len(s) >= Len(p) /\ SubSeq(s, 1, Len(p)) = p

\* str.replace(old, new): every non-overlapping occurrence, left to right
RECURSIVE Replace(_, _, _)
Replace(s, old, new) ==
  IF s = <<>> THEN <<>>
  ELSE IF StartsWith(s, old)
       THEN new \o Replace(SubSeq(s, Len(old) + 1, Len(s)), old, new)
       ELSE <<Head(s)>> \o Replace(Tail(s), old, new)

RECURSIVE LStrip(_)
LStrip(s) ==
  IF s # <<>> /\ Head(s) \in Whitespace THEN LStrip(Tail(s)) ELSE s

RECURSIVE RStrip(_)
RStrip(s) ==
  IF s # <<>> /\ s[Len(s)] \in Whitespace
  THEN RStrip(SubSeq(s, 1, Len(s) - 1)) ELSE s

\* str.strip()
Strip(s) == RStrip(LStrip(s))

\* how an f-string renders attrs.get('title'): the value, or 'None'
FormatTitle(node) ==
  IF node.hasTitle THEN node.title ELSE <<"N", "o", "n", "e">>

(***************************************************************************)
(* parse_konto                                                             *)
(***************************************************************************)
TextNode(s) == [tag |-> "text", text |-> s, hasTitle |-> FALSE, title |-> <<>>]
LinkNode(t, a) == [tag |-> "a", text |-> t, hasTitle |-> TRUE, title |-> a]
BareLink(t) == [tag |-> "a", text |-> t, hasTitle |-> FALSE, title |-> <<>>]

\* description.find_all('a'): positions of the <a> children, document order
FindAllA(div) == {i \in 1..Len(div) : div[i].tag = "a"}

\* slip: the link is replaced by its visible text alone
ReplaceWithText(div, i) == [div EXCEPT ![i] = TextNode(div[i].text)]

\* link.replace_with(f"{link.text} ({link.attrs.get('title')})")
ReplaceWith(div, i) ==
  [div EXCEPT ![i] =
     TextNode(div[i].text \o <<" ", "(">> \o FormatTitle(div[i]) \o <<")">>)]

\* for link in links: link.replace_with(...)
RECURSIVE ReplaceLinks(_, _)
ReplaceLinks(div, links) ==
  IF links = {} THEN div
  ELSE LET i == CHOOSE k \in links : \A m \in links : k <= m
       IN ReplaceLinks(ReplaceWith(div, i), links \ {i})

\* Tag.text: the strings of the subtree concatenated in document order
RECURSIVE GetText(_)
GetText(div) ==
  IF div = <<>> THEN <<>> ELSE Head(div).text \o GetText(Tail(div))

NoKonto == [ok |-> FALSE, exc |-> "none", id |-> <<>>, tittel |-> <<>>,
            beskrivelse |-> <<>>]

\* slip: the first heading is taken as the id with its 'Konto: ' left in
ParseKontoKeepPrefix(html) ==
  IF Len(html.h1) < 2
  THEN [NoKonto EXCEPT !.exc = "IndexError"]
  ELSE IF ~html.hasDiv
  THEN [NoKonto EXCEPT !.exc = "AttributeError"]
  ELSE [ok |-> TRUE, exc |-> "none",
        id |-> html.h1[1],
        tittel |-> html.h1[2],
        beskrivelse |->
          Strip(GetText(ReplaceLinks(html.div, FindAllA(html.div))))]

ParseKonto(html) ==
  IF Len(html.h1) < 2
  THEN [NoKonto EXCEPT !.exc = "IndexError"]
  ELSE IF ~html.hasDiv
  THEN [NoKonto EXCEPT !.exc = "AttributeError"]
  ELSE [ok |-> TRUE, exc |-> "none",
        id |-> Replace(html.h1[1], KontoPrefix, <<>>),
        tittel |-> html.h1[2],
        beskrivelse |->
          Strip(GetText(ReplaceLinks(html.div, FindAllA(html.div))))]

(***************************************************************************)
(* Catalog: json_data, json.dumps and json.loads                           *)
(*                                                                         *)
(* A dict is the sequence of its entries in insertion order with unique    *)
(* ids; the artifact's text is the sequence of the members of the JSON     *)
(* object, <<key, tittel, beskrivelse>>, in the order they are written.    *)
(***************************************************************************)
Entry(id, tittel, beskrivelse) ==
  [id |-> id, tittel |-> tittel, beskrivelse |-> beskrivelse]

\* slip: d.setdefault(key, value), an existing key keeps its value
DictSetDefault(d, e) ==
  IF \E j \in 1..Len(d) : d[j].id = e.id THEN d ELSE Append(d, e)

\* d[key] = value: an existing key keeps its position and takes the new value
DictSet(d, e) ==
  IF \E j \in 1..Len(d) : d[j].id = e.id
  THEN [j \in 1..Len(d) |-> IF d[j].id = e.id THEN e ELSE d[j]]
  ELSE Append(d, e)

\* {konto.id: {'tittel': ..., 'beskrivelse': ...} for konto in kontoer}
RECURSIVE JsonData(_, _)
JsonData(kontoer, d) ==
  IF kontoer = <<>> THEN d
  ELSE JsonData(Tail(kontoer),
                DictSet(d, Entry(Head(kontoer).id, Head(kontoer).tittel,
                                 Head(kontoer).beskrivelse)))

\* json.dumps(json_data, ensure_ascii=False, indent=4)
JsonDumps(d) ==
  [j \in 1..Len(d) |-> <<d[j].id, d[j].tittel, d[j].beskrivelse>>]

\* slip: the two fields of a member are read in the wrong order
RECURSIVE JsonLoadsSwapped(_, _)
JsonLoadsSwapped(text, d) ==
  IF text = <<>> THEN d
  ELSE JsonLoadsSwapped(Tail(text),
         DictSet(d, Entry(Head(text)[1], Head(text)[3], Head(text)[2])))

\* json.loads(text): members in order, a repeated key keeps the last value
RECURSIVE JsonLoads(_, _)
JsonLoads(text, d) ==
  IF text = <<>> THEN d
  ELSE JsonLoads(Tail(text),
                 DictSet(d, Entry(Head(text)[1], Head(text)[2], Head(text)[3])))

(***************************************************************************)
(* The artifact ACCOUNTS_FILE and the server                               *)
(***************************************************************************)
\* ACCOUNTS_FILE does not exist
Absent == [exists |-> FALSE, perm |-> TRUE, text |-> <<>>]

\* what open(ACCOUNTS_FILE) does
OpenResult(a) ==
  IF ~a.exists THEN "absent" ELSE IF a.perm THEN "present" ELSE "denied"

\* slip: except OSError, which catches PermissionError as well
CaughtOSError(r) == r # "present"

\* except FileNotFoundError: the results of open() that get_accounts catches
Caught(r) == r = "absent"

\* slip: no use of the file that is there, every call scrapes
GetAccountsBranchNoCache(a) ==
  IF OpenResult(a) = "denied" THEN "raise" ELSE "scrape"

\* get_accounts: return the file's content, scrape, or let the error out
GetAccountsBranch(a) ==
  IF OpenResult(a) = "present" THEN "read"
  ELSE IF Caught(OpenResult(a)) THEN "scrape" ELSE "raise"

\* positions in QUERIES
Queries == 1..NumQueries

NoHtml == [h1 |-> <<>>, hasDiv |-> FALSE, div |-> <<>>]

Page(h1, div) == [h1 |-> h1, hasDiv |-> TRUE, div |-> div]

\* pages the server may answer with: three well-formed ones, two of them
\* carrying the same id, a page with one heading and a page with no
\* description block
Pages ==
  { Page(<<KontoPrefix \o <<"1">>, <<"A">>>>,
         <<TextNode(<<"\n", "x", " ">>), LinkNode(<<"T">>, <<"L">>),
           TextNode(<<" ">>)>>),
    Page(<<KontoPrefix \o <<"1">>, <<"B">>>>, <<TextNode(<<"y">>)>>),
    Page(<<KontoPrefix \o <<"2">>, <<"C">>>>, <<BareLink(<<"U">>)>>),
    Page(<<KontoPrefix \o <<"3">>>>, <<TextNode(<<"z">>)>>),
    [h1 |-> <<KontoPrefix \o <<"3">>, <<"D">>>>, hasDiv |-> FALSE,
     div |-> <<>>] }

\* statuses that scrape() turns into an exception
FatalStatuses == {500}

NoTask == [st |-> "none", status |-> 0, html |-> NoHtml]
InFlight == [st |-> "inflight", status |-> 0, html |-> NoHtml]

\* the task's ClientSession is open: its async with block was entered and
\* has not been left
HoldsConnection(t) == t.st = "inflight"

Bump(n, cap) == IF n < cap THEN n + 1 ELSE n

(***************************************************************************)
(* scrape_queries: what follows the gather                                 *)
(***************************************************************************)
\* slip: gather(..., return_exceptions=True) returns once every task has
\* returned or raised
GatherSettles(ts) == \A i \in Queries : ts[i].st \in {"done", "failed"}

\* slip: asyncio.wait(..., return_when=FIRST_COMPLETED) returns with the
\* first task that has returned
GatherReturnsFirst(ts) == \E i \in Queries : ts[i].st = "done"

\* await asyncio.gather(*tasks) returns: every task has returned
GatherReturns(ts) == \A i \in Queries : ts[i].st = "done"

\* await asyncio.gather(*tasks) raises: some task has raised
GatherRaises(ts) == \E i \in Queries : ts[i].st = "failed"

\* gather's result in the order of QUERIES, without the None values
RECURSIVE Htmls(_, _)
Htmls(ts, i) ==
  IF i > NumQueries THEN <<>>
  ELSE (IF ts[i].st = "done" /\ ts[i].status = 200
        THEN <<ts[i].html>> ELSE <<>>) \o Htmls(ts, i + 1)

\* slip: a page that does not parse is skipped
KontoerSkipBad(htmls) ==
  SelectSeq([j \in 1..Len(htmls) |-> ParseKonto(htmls[j])],
            LAMBDA k : k.ok)

\* [parse_konto(str(html)) for html in htmls]
Kontoer(htmls) == [j \in 1..Len(htmls) |-> ParseKonto(htmls[j])]

\* the exception of the first page that parse_konto fails on
FirstParseError(kontoer) ==
  LET j == CHOOSE k \in 1..Len(kontoer) :
             /\ ~kontoer[k].ok
             /\ \A m \in 1..(k - 1) : kontoer[m].ok
  IN kontoer[j].exc

(***************************************************************************)
(* State                                                                   *)
(*   artifact        ACCOUNTS_FILE: exists, perm (the process may open     *)
(*                   it), text                                             *)
(*   pc              "idle", "get_accounts" (at the try of get_accounts),  *)
(*                   "gather" (scrape_queries awaits the gather)           *)
(*   mode            who runs: "get_accounts" or "main" (the forced scrape)*)
(*   tasks           the tasks of the current event loop, one per query    *)
(*   outcome, err    how the last invocation ended and with which error    *)
(*   ret             the dict returned by the last get_accounts            *)
(*   writes, scrapes, issued, startState, lastSeen, consec             *)
(*                   history: writes of the artifact in the current pass,  *)
(*                   passes and retrievals started by the current          *)
(*                   invocation, what opening the artifact gave when it    *)
(*                   began, whether the artifact was last seen present or  *)
(*                   deleted, and how many get_accounts returned in a row  *)
(*                   with the artifact untouched                           *)
(*   pPc, pHtml, pKonto   parse_konto applied to one page on its own       *)
(***************************************************************************)
CounterCap == 2

Init ==
  /\ artifact = Absent
  /\ pc = "idle"
  /\ mode = "none"
  /\ tasks = [i \in Queries |-> NoTask]
  /\ outcome = "none"
  /\ err = "none"
  /\ ret = <<>>
  /\ writes = 0
  /\ scrapes = 0
  /\ issued = 0
  /\ startState = "absent"
  /\ lastSeen = "never"
  /\ consec = "none"
  /\ pPc = "off"
  /\ pHtml = NoHtml
  /\ pKonto = NoKonto

\* tasks = [asyncio.create_task(scrape(query)) for query in queries]: every
\* task opens its ClientSession and sends its request in the loop's first
\* iteration, before any response can arrive
FanOut ==
  /\ tasks' = [i \in Queries |-> InFlight]
  /\ pc' = "gather"
  /\ writes' = 0
  /\ scrapes' = Bump(scrapes, CounterCap)
  /\ issued' = Bump(issued, CounterCap)

\* a caller invokes get_accounts()
GetAccountsCall ==
  /\ pc = "idle"
  /\ pc' = "get_accounts"
  /\ mode' = "get_accounts"
  /\ outcome' = "running"
  /\ err' = "none"
  /\ scrapes' = 0
  /\ issued' = 0
  /\ startState' = OpenResult(artifact)
  /\ UNCHANGED <<artifact, tasks, ret, writes, lastSeen, consec>>
  /\ UNCHANGED parseVars

\* open() succeeds: return json.loads(f.read())
GetAccountsRead ==
  /\ pc = "get_accounts"
  /\ GetAccountsBranch(artifact) = "read"
  /\ ret' = JsonLoads(artifact.text, <<>>)
  /\ outcome' = "returned"
  /\ pc' = "idle"
  /\ lastSeen' = "present"
  /\ consec' = IF consec = "none" THEN "once" ELSE "twice"
  /\ UNCHANGED <<artifact, mode, tasks, err, writes, scrapes, issued,
                 startState>>
  /\ UNCHANGED parseVars

\* open() raises FileNotFoundError: scrape_async()
GetAccountsNotFound ==
  /\ pc = "get_accounts"
  /\ GetAccountsBranch(artifact) = "scrape"
  /\ FanOut
  /\ UNCHANGED <<artifact, mode, outcome, err, ret, startState, lastSeen,
                 consec>>
  /\ UNCHANGED parseVars

\* open() raises PermissionError, which no except clause catches
GetAccountsDenied ==
  /\ pc = "get_accounts"
  /\ GetAccountsBranch(artifact) = "raise"
  /\ outcome' = "raised"
  /\ err' = "PermissionError"
  /\ pc' = "idle"
  /\ UNCHANGED <<artifact, mode, tasks, ret, writes, scrapes, issued,
                 startState, lastSeen, consec>>
  /\ UNCHANGED parseVars

\* the module run as a script and answered 'y': scrape_async()
MainForceScrape ==
  /\ pc = "idle"
  /\ mode' = "main"
  /\ outcome' = "running"
  /\ err' = "none"
  /\ startState' = OpenResult(artifact)
  /\ tasks' = [i \in Queries |-> InFlight]
  /\ pc' = "gather"
  /\ writes' = 0
  /\ scrapes' = 1
  /\ issued' = 1
  /\ UNCHANGED <<artifact, ret, lastSeen, consec>>
  /\ UNCHANGED parseVars

\* scrape(): status 200, return await response.text()
Scrape200(i, page) ==
  /\ pc = "gather"
  /\ tasks[i].st = "inflight"
  /\ tasks' = [tasks EXCEPT ![i] = [st |-> "done", status |-> 200,
                                    html |-> page]]
  /\ UNCHANGED <<artifact, pc, mode, outcome, err, ret, writes, scrapes,
                 issued, startState, lastSeen, consec>>
  /\ UNCHANGED parseVars

\* scrape(): status 404, return None
Scrape404(i) ==
  /\ pc = "gather"
  /\ tasks[i].st = "inflight"
  /\ tasks' = [tasks EXCEPT ![i] = [st |-> "done", status |-> 404,
                                    html |-> NoHtml]]
  /\ UNCHANGED <<artifact, pc, mode, outcome, err, ret, writes, scrapes,
                 issued, startState, lastSeen, consec>>
  /\ UNCHANGED parseVars

\* scrape(): any other status, raise Exception; both async with blocks are
\* left, which closes the task's session
ScrapeRaise(i, status) ==
  /\ pc = "gather"
  /\ tasks[i].st = "inflight"
  /\ tasks' = [tasks EXCEPT ![i] = [st |-> "failed", status |-> status,
                                    html |-> NoHtml]]
  /\ UNCHANGED <<artifact, pc, mode, outcome, err, ret, writes, scrapes,
                 issued, startState, lastSeen, consec>>
  /\ UNCHANGED parseVars

\* the gather raises the task's exception into scrape_queries, which ends
\* run_until_complete and get_accounts with it; the loop is not run again,
\* so the tasks still in flight stay where they are
GatherAbort ==
  /\ pc = "gather"
  /\ GatherRaises(tasks)
  /\ outcome' = "raised"
  /\ err' = "StatusError"
  /\ pc' = "idle"
  /\ UNCHANGED <<artifact, mode, tasks, ret, writes, scrapes, issued,
                 startState, lastSeen, consec>>
  /\ UNCHANGED parseVars

\* the gather returns and a parse_konto raises: nothing is written
ScrapeQueriesParseError ==
  /\ pc = "gather"
  /\ GatherReturns(tasks)
  /\ LET kontoer == Kontoer(Htmls(tasks, 1))
     IN /\ \E j \in 1..Len(kontoer) : ~kontoer[j].ok
        /\ err' = FirstParseError(kontoer)
  /\ outcome' = "raised"
  /\ pc' = "idle"
  /\ UNCHANGED <<artifact, mode, tasks, ret, writes, scrapes, issued,
                 startState, lastSeen, consec>>
  /\ UNCHANGED parseVars

\* the gather returns, every page parses, open(ACCOUNTS_FILE, 'w+') raises
\* PermissionError
ScrapeQueriesWriteDenied ==
  /\ pc = "gather"
  /\ GatherReturns(tasks)
  /\ LET kontoer == Kontoer(Htmls(tasks, 1))
     IN \A j \in 1..Len(kontoer) : kontoer[j].ok
  /\ OpenResult(artifact) = "denied"
  /\ outcome' = "raised"
  /\ err' = "PermissionError"
  /\ pc' = "idle"
  /\ UNCHANGED <<artifact, mode, tasks, ret, writes, scrapes, issued,
                 startState, lastSeen, consec>>
  /\ UNCHANGED parseVars

\* the gather returns, every page parses, the catalog is written, the loop
\* is stopped and scrape_async returns: to get_accounts, which calls itself
\* again, or to the script
ScrapeQueriesWrite ==
  /\ pc = "gather"
  /\ GatherReturns(tasks)
  /\ LET kontoer == Kontoer(Htmls(tasks, 1))
     IN /\ \A j \in 1..Len(kontoer) : kontoer[j].ok
        /\ artifact' = [exists |-> TRUE, perm |-> TRUE,
                        text |-> JsonDumps(JsonData(kontoer, <<>>))]
  /\ OpenResult(artifact) # "denied"
  /\ writes' = Bump(writes, CounterCap)
  /\ lastSeen' = "present"
  /\ consec' = "none"
  /\ IF mode = "get_accounts"
     THEN pc' = "get_accounts" /\ UNCHANGED outcome
     ELSE pc' = "idle" /\ outcome' = "done"
  /\ UNCHANGED <<mode, tasks, err, ret, scrapes, issued, startState>>
  /\ UNCHANGED parseVars

\* somebody deletes ACCOUNTS_FILE while the program is not running
ExternalDelete ==
  /\ pc = "idle"
  /\ artifact.exists
  /\ artifact' = Absent
  /\ lastSeen' = "deleted"
  /\ consec' = "none"
  /\ UNCHANGED <<pc, mode, tasks, outcome, err, ret, writes, scrapes, issued,
                 startState>>
  /\ UNCHANGED parseVars

\* somebody takes away or gives back the permission to open ACCOUNTS_FILE
ExternalChmod ==
  /\ pc = "idle"
  /\ artifact.exists
  /\ artifact' = [artifact EXCEPT !.perm = ~artifact.perm]
  /\ consec' = "none"
  /\ UNCHANGED <<pc, mode, tasks, outcome, err, ret, writes, scrapes, issued,
                 startState, lastSeen>>
  /\ UNCHANGED parseVars

Next ==
  \/ GetAccountsCall
  \/ GetAccountsRead
  \/ GetAccountsNotFound
  \/ GetAccountsDenied
  \/ MainForceScrape
  \/ \E i \in Queries, page \in Pages : Scrape200(i, page)
  \/ \E i \in Queries : Scrape404(i)
  \/ \E i \in Queries, status \in FatalStatuses : ScrapeRaise(i, status)
  \/ GatherAbort
  \/ ScrapeQueriesParseError
  \/ ScrapeQueriesWriteDenied
  \/ ScrapeQueriesWrite
  \/ ExternalDelete
  \/ ExternalChmod

Spec == Init /\ [][Next]_vars

(***************************************************************************)
(* parse_konto on its own: Init draws one page, the actions apply          *)
(* parse_konto to it                                                       *)
(***************************************************************************)
NodeSet ==
  { TextNode(<<" ">>), TextNode(<<"x">>), TextNode(<<"\n", "y">>),
    LinkNode(<<"T">>, <<"A">>), LinkNode(<<" ", "U">>, <<"B">>),
    BareLink(<<"V">>) }

Divs == UNION {[1..n -> NodeSet] : n \in 0..MaxNodes}

HeadingLists ==
  { <<>>,
    <<KontoPrefix \o <<"7">>>>,
    <<KontoPrefix \o <<"7">>, <<"N">>>>,
    <<<<"7">>, <<"N">>>>,
    <<KontoPrefix \o <<"7">>, <<"N">>, <<"E">>>> }

HtmlInputs ==
  {Page(h, d) : h \in HeadingLists, d \in Divs}
    \cup {[h1 |-> h, hasDiv |-> FALSE, div |-> <<>>] : h \in HeadingLists}

InitParse ==
  /\ artifact = Absent
  /\ pc = "idle"
  /\ mode = "none"
  /\ tasks = [i \in Queries |-> NoTask]
  /\ outcome = "none"
  /\ err = "none"
  /\ ret = <<>>
  /\ writes = 0
  /\ scrapes = 0
  /\ issued = 0
  /\ startState = "absent"
  /\ lastSeen = "never"
  /\ consec = "none"
  /\ pPc = "call"
  /\ pHtml \in HtmlInputs
  /\ pKonto = NoKonto

\* parse_konto(html) returns a Konto
ParseKontoReturn ==
  /\ pPc = "call"
  /\ ParseKonto(pHtml).ok
  /\ pKonto' = ParseKonto(pHtml)
  /\ pPc' = "returned"
  /\ UNCHANGED pHtml
  /\ UNCHANGED storeVars

\* parse_konto(html) raises IndexError or AttributeError
ParseKontoRaise ==
  /\ pPc = "call"
  /\ ~ParseKonto(pHtml).ok
  /\ pKonto' = ParseKonto(pHtml)
  /\ pPc' = "raised"
  /\ UNCHANGED pHtml
  /\ UNCHANGED storeVars

NextParse ==
  \/ ParseKontoReturn
  \/ ParseKontoRaise

SpecParse == InitParse /\ [][NextParse]_vars

(***************************************************************************)
(* Vocabulary of the properties                                            *)
(***************************************************************************)
\* the queries answered 200, 404, and with a fatal status
Ok200 == {i \in Queries : tasks[i].st = "done" /\ tasks[i].status = 200}
Gone404 == {i \in Queries : tasks[i].st = "done" /\ tasks[i].status = 404}
Fatal == {i \in Queries : tasks[i].st = "failed"}
Pending == {i \in Queries : tasks[i].st = "inflight"}

\* a page has the structure parse_konto expects
WellFormed(html) == Len(html.h1) >= 2 /\ html.hasDiv

\* the first heading without its leading 'Konto: '
HeadingId(html) ==
  SubSeq(html.h1[1], Len(KontoPrefix) + 1, Len(html.h1[1]))

\* a catalog (dict or text) holds every id at most once
UniqueIds(ids) == \A j, k \in DOMAIN ids : ids[j] = ids[k] => j = k

\* the dict d holds exactly the members of the text t
SameContent(d, t) ==
  /\ Len(d) = Len(t)
  /\ \A j \in 1..Len(t) : \E k \in 1..Len(d) :
       d[k] = Entry(t[j][1], t[j][2], t[j][3])

ParseErrors == {"IndexError", "AttributeError"}

\* C1: with the artifact present and readable when get_accounts is called,
\* the call's one step returns exactly the artifact's content, starts no
\* retrieval and leaves the artifact as it is; and when the previous call
\* returned too and nothing touched the artifact since, it returns what the
\* previous call returned.
C1_CachedRead ==
  [][(pc = "get_accounts" /\ startState = "present") =>
       /\ pc' = "idle" /\ outcome' = "returned"
       /\ SameContent(ret', artifact.text)
       /\ artifact' = artifact
       /\ tasks' = tasks /\ scrapes' = 0 /\ issued' = 0
       /\ (consec # "none" => ret' = ret)]_vars

C1_Witness ==
  /\ mode = "get_accounts" /\ outcome = "returned" /\ startState = "present"
  /\ consec = "twice"
  /\ Len(ret) = 2

\* C2: a get_accounts that found no artifact and returned has a catalog
\* whose keys are exactly the ids in the content of the 200 responses; no
\* entry comes from a 404; when those ids are distinct there is one entry
\* per 200 response, with that response's title.
C2_CatalogOfOkResponses ==
  (mode = "get_accounts" /\ outcome = "returned" /\ startState = "absent") =>
    /\ Ok200 \cup Gone404 = Queries
    /\ \A i \in Ok200 : WellFormed(tasks[i].html)
    /\ UniqueIds([j \in 1..Len(ret) |-> ret[j].id])
    /\ {ret[j].id : j \in 1..Len(ret)}
         = {HeadingId(tasks[i].html) : i \in Ok200}
    /\ (\A i, k \in Ok200 :
          HeadingId(tasks[i].html) = HeadingId(tasks[k].html) => i = k)
       => /\ Len(ret) = Cardinality(Ok200)
          /\ \A i \in Ok200 : \E j \in 1..Len(ret) :
               /\ ret[j].id = HeadingId(tasks[i].html)
               /\ ret[j].tittel = tasks[i].html.h1[2]

C2_Witness ==
  /\ mode = "get_accounts" /\ outcome = "returned" /\ startState = "absent"
  /\ Cardinality(Gone404) = 1
  /\ Cardinality(Ok200) = NumQueries - 1
  /\ Len(ret) = NumQueries - 1

\* C3: once a retrieval of the batch has ended with a fatal status, no step
\* changes the artifact or returns a catalog, and the batch ends only by
\* raising the error to the caller.
C3_FatalStatusAborts ==
  [][(pc = "gather" /\ Fatal # {}) =>
       /\ artifact' = artifact
       /\ ret' = ret
       /\ outcome' # "returned" /\ outcome' # "done"
       /\ pc' \in {"gather", "idle"}
       /\ (pc' = "idle" => outcome' = "raised" /\ err' = "StatusError")]_vars

C3_Witness ==
  /\ pc = "idle" /\ outcome = "raised" /\ err = "StatusError"
  /\ artifact.exists
  /\ Ok200 # {} /\ Pending # {} /\ Fatal # {}

\* C4: once a fetched page lacks the expected structure, no step changes
\* the artifact or returns a catalog, and the batch ends only by raising an
\* error to the caller.
C4_ParseFailureAborts ==
  [][(pc = "gather" /\ \E i \in Ok200 : ~WellFormed(tasks[i].html)) =>
       /\ artifact' = artifact
       /\ ret' = ret
       /\ outcome' # "returned" /\ outcome' # "done"
       /\ pc' \in {"gather", "idle"}
       /\ (pc' = "idle" => outcome' = "raised")
       /\ (pc' = "idle" /\ Fatal = {} => err' \in ParseErrors)]_vars

C4_Witness ==
  /\ pc = "idle" /\ outcome = "raised" /\ err \in ParseErrors
  /\ artifact.exists
  /\ \E i \in Ok200 : WellFormed(tasks[i].html)
  /\ \E i \in Ok200 : ~WellFormed(tasks[i].html)

\* C5: get_accounts enters Scraping only with the artifact absent and never
\* after the artifact was last seen present (a deletion must come first),
\* at most once per call; a scrape that succeeds re-enters get_accounts with
\* the artifact in place, and that re-entry returns.
C5_StoreStateMachine ==
  [][/\ (mode' = "get_accounts" => scrapes' <= 1)
     /\ (pc = "get_accounts" /\ pc' = "gather" =>
           /\ ~artifact.exists
           /\ lastSeen # "present"
           /\ scrapes = 0)
     /\ (pc = "gather" /\ pc' = "get_accounts" =>
           artifact'.exists /\ lastSeen' = "present")
     /\ (pc = "get_accounts" /\ scrapes = 1 =>
           pc' = "idle" /\ outcome' = "returned")]_vars

C5_Witness ==
  /\ mode = "get_accounts" /\ outcome = "returned"
  /\ startState = "absent" /\ scrapes = 1
  /\ lastSeen = "present"

\* C6 as stated: a get_accounts that found the artifact unreadable has taken
\* the path of a missing artifact, a scrape.
C6_Original ==
  (mode = "get_accounts" /\ startState = "denied" /\ pc # "get_accounts") =>
    scrapes >= 1

\* C6 amended: a get_accounts that found the artifact present but unreadable
\* ends with the PermissionError raised to the caller, without a scrape.
C6_PermissionErrorPropagates ==
  (mode = "get_accounts" /\ startState = "denied" /\ pc # "get_accounts") =>
    /\ pc = "idle"
    /\ outcome = "raised" /\ err = "PermissionError"
    /\ scrapes = 0 /\ issued = 0

C6_Witness ==
  /\ mode = "get_accounts" /\ startState = "denied"
  /\ outcome = "raised" /\ err = "PermissionError"
  /\ artifact.exists /\ ~artifact.perm

\* C8: a pass writes the artifact at most once; the step that parses and
\* writes is taken only when every retrieval has returned 200 or 404, and it
\* writes only when every fetched page parsed; get_accounts itself never
\* changes the artifact.
C8_WriteAfterAllRetrievals ==
  [][/\ writes' <= 1
     /\ (pc = "gather" /\ pc' # "gather"
           /\ ~(outcome' = "raised" /\ err' = "StatusError")
         => Ok200 \cup Gone404 = Queries)
     /\ (pc = "gather" /\ (artifact' # artifact \/ writes' # writes) =>
           /\ Ok200 \cup Gone404 = Queries
           /\ \A i \in Ok200 : WellFormed(tasks[i].html)
           /\ writes = 0 /\ writes' = 1)
     /\ (pc = "get_accounts" => artifact' = artifact)]_vars

C8_Witness ==
  /\ writes = 1
  /\ artifact.exists
  /\ Ok200 \cup Gone404 = Queries
  /\ Ok200 # {} /\ Gone404 # {}

\* C9: after a batch aborted on a fatal status, no retrieval holds an open
\* connection.
C9_ConnectionsReleased ==
  (pc = "idle" /\ outcome = "raised" /\ err = "StatusError") =>
    \A i \in Queries : ~HoldsConnection(tasks[i])

\* C10: the artifact written by a pass holds every id once, and the entry of
\* an id is the record of the last query, in the order of QUERIES, whose page
\* carries that id.
C10_LastWriteWins ==
  (writes = 1 /\ artifact.exists) =>
    /\ UniqueIds([j \in 1..Len(artifact.text) |-> artifact.text[j][1]])
    /\ \A j \in 1..Len(artifact.text) :
         LET same == {i \in Ok200 :
                        HeadingId(tasks[i].html) = artifact.text[j][1]}
         IN /\ same # {}
            /\ LET last == CHOOSE i \in same : \A k \in same : k <= i
               IN /\ artifact.text[j][2] = tasks[last].html.h1[2]
                  /\ artifact.text[j][3]
                       = ParseKonto(tasks[last].html).beskrivelse

C10_Witness ==
  /\ writes = 1 /\ artifact.exists
  /\ \E i, k \in Ok200 :
       /\ i < k
       /\ HeadingId(tasks[i].html) = HeadingId(tasks[k].html)
       /\ tasks[i].html.h1[2] # tasks[k].html.h1[2]
       /\ \E j \in 1..Len(artifact.text) :
            /\ artifact.text[j][1] = HeadingId(tasks[k].html)
            /\ artifact.text[j][2] = tasks[k].html.h1[2]
       /\ \A m \in Ok200 : m <= k

(***************************************************************************)
(* Properties of parse_konto, under SpecParse                              *)
(***************************************************************************)
\* what a child of the description block contributes to the text
Annotation(node) ==
  IF node.tag = "a"
  THEN node.text \o <<" ", "(">> \o node.title \o <<")">>
  ELSE node.text

RECURSIVE ConcatUpTo(_, _)
ConcatUpTo(div, n) ==
  IF n = 0 THEN <<>> ELSE ConcatUpTo(div, n - 1) \o Annotation(div[n])

\* t is s without its leading and trailing whitespace
IsTrimOf(t, s) ==
  /\ t = <<>> \/ (t[1] \notin Whitespace /\ t[Len(t)] \notin Whitespace)
  /\ \E a, b \in 0..Len(s) :
       /\ a + b <= Len(s)
       /\ \A k \in 1..a : s[k] \in Whitespace
       /\ \A k \in (Len(s) - b + 1)..Len(s) : s[k] \in Whitespace
       /\ t = SubSeq(s, a + 1, Len(s) - b)

\* C7: for a description block of text fragments and links that all have a
\* title, the description is the in-order concatenation of the fragments and
\* of "T (A)" for every link, without its leading and trailing whitespace.
C7_LinksInlined ==
  (pPc = "returned"
     /\ \A k \in 1..Len(pHtml.div) :
          pHtml.div[k].tag = "a" => pHtml.div[k].hasTitle) =>
    IsTrimOf(pKonto.beskrivelse, ConcatUpTo(pHtml.div, Len(pHtml.div)))

C7_Witness ==
  /\ pPc = "returned"
  /\ pHtml.div = <<TextNode(<<" ">>), LinkNode(<<"T">>, <<"A">>),
                   TextNode(<<"\n", "y">>)>>
  /\ pKonto.beskrivelse = <<"T", " ", "(", "A", ")", "\n", "y">>

====
